---- MODULE Spec2Model ----
(***************************************************************************)
(* Client-side authentication and session-resilience core of animateimage. *)
(*                                                                         *)
(* Three parts of the repository are modelled:                             *)
(*   - the multi-layer key/value helpers of googleAuthService.ts           *)
(*     (localStorage, cookie, IndexedDB) and the handlers of the variant   *)
(*     of that service which keeps the token in storage  (SpecStore);      *)
(*   - the variant of googleAuthService.ts that keeps the access token in  *)
(*     memory: authenticatedFetch, refreshToken, signOut, the credential   *)
(*     handler  (Spec: operations overlap, SpecSeq: one at a time);        *)
(*   - the device identity of userIdService and usageService  (SpecId).    *)
(***************************************************************************)
EXTENDS Integers, Sequences, FiniteSets, TLC

(***************************************************************************)
(* Bounds of the model.                                                    *)
(***************************************************************************)
\* callers of authenticatedFetch that may run at the same time
NCalls == 2
\* distinct access tokens the server hands out (0 is "no token")
MaxTok == 2
\* credit balances a user record can carry: 0..MaxCredits
MaxCredits == 0
\* operations that may be in flight at the same time under Spec
MaxActive == 2
\* device ids the random generator can produce
MaxIds == 2
\* callbacks registered with onAuthStateChange in one page load
MaxSubs == 2

VARIABLES
    \* ---- browser storage seen by the storage helpers (keyed) ----
    localStorage,      \* [Keys -> string or NULL]
    cookieJar,         \* [Keys -> percent-encoded string or NULL]
    indexedDB,         \* [Keys -> string or NULL]     (object store 'auth')
    stRes,             \* outcome of the last storage helper call
    \* ---- environment ----
    lsFull,            \* localStorage.setItem throws (quota exceeded)
    ckBlocked,         \* the browser drops cookie writes
    idbDown,           \* indexedDB.open fails
    googleLoaded,      \* window.google.accounts.id exists
    \* ---- memory-token variant of googleAuthService ----
    accessToken,       \* the in-memory token, 0 when null
    sessLs, sessCk, sessIdb,  \* the session key in the three layers
    gsiInit,           \* google.accounts.id.initialize has registered the callback
    polling,           \* a checkGoogleLoaded timer chain is alive
    lastNotified,      \* what notifyAuthStateChange last delivered
    thr,               \* [Threads -> record]: the asynchronous operations
    \* ---- device identity ----
    cachedUserId,      \* userIdService: let cachedUserId
    idCookie,          \* cookie animateimage_userid
    idIdb,             \* IndexedDB animateimage_user / user / 'user_id'
    uUserId,           \* usageService: let userId
    uIdb,              \* IndexedDB animateimage / user / 'primary'
    idOp,              \* the getOrCreateUserId call in flight
    idRes,             \* results of the completed getOrCreateUserId calls
    \* ---- auth-state subscribers ----
    authStateCallbacks, \* googleAuthService: let authStateCallbacks
    invoked,           \* the callbacks the last notification called, in order
    cbCount,           \* callbacks created since the page loaded
    disposed,          \* callbacks whose disposer has been called
    \* ---- App component ----
    apiKey,            \* useState apiKey
    lsGeminiKey,       \* localStorage 'gemini_api_key'
    appUser,           \* useState user is not null
    showApiKeyModal,   \* useState showApiKeyModal
    pendingAutoGenerate, \* useState pendingAutoGenerate
    selectedImage,     \* useState selectedImage is not null
    chose,             \* what the user last submitted in the modal
    genMode,           \* how the last generation was started
    \* ---- geminiService ----
    gem,               \* the geminiService call in progress or last returned
    \* ---- a second caller of userIdService ----
    idOp2,             \* a getOrCreateUserId call that runs beside idOp
    \* ---- usageService events ----
    usage              \* the 'events' object store and the sync of this page

storeVars == <<localStorage, cookieJar, indexedDB, stRes>>
envVars   == <<lsFull, ckBlocked, idbDown, googleLoaded>>
authVars  == <<accessToken, sessLs, sessCk, sessIdb, gsiInit, polling, lastNotified, thr>>
idVars    == <<cachedUserId, idCookie, idIdb, uUserId, uIdb, idOp, idRes>>
subVars   == <<authStateCallbacks, invoked, cbCount, disposed>>
appVars   == <<apiKey, lsGeminiKey, appUser, showApiKeyModal, pendingAutoGenerate,
               selectedImage, chose, genMode>>
svcVars   == <<gem, idOp2, usage>>
vars      == <<storeVars, envVars, authVars, idVars, subVars, appVars, svcVars>>

(***************************************************************************)
(* Strings are sequences of characters.  null is a sequence no string      *)
(* equals; THREW marks a call that rejected.                               *)
(***************************************************************************)
NULL  == <<"null">>
THREW == <<"threw">>

\* the empty string of useState<string>('') and an absent localStorage item
NoKey   == "none"
ApiKeys == {"k1", "k2"}

\* values the callers store under the user key: JSON text, abstracted to the
\* characters that matter to the cookie codec (a ';' or a blank inside it)
StrVals == { <<"a">>, <<"b">>, <<"a", ";", "b">>, <<"a", " ", "b">> }
TokStr  == <<"t">>
ExpStr  == <<"e">>

\* JavaScript truthiness of string | null
Truthy(v) == v # NULL /\ v # <<>>

(***************************************************************************)
(* getStorageKeys (storage variant)                                        *)
(***************************************************************************)
KeyToken  == "access_token"
KeyUser   == "user"
KeyExpiry == "token_expiry"
Keys      == {KeyToken, KeyUser, KeyExpiry}

(***************************************************************************)
(* Cookie helpers.  setCookie writes key=encodeURIComponent(value);        *)
(* getCookie decodes the WHOLE cookie string, then splits it at ';',       *)
(* trims each piece and returns what follows "key=".                       *)
(***************************************************************************)
EncChar(c) == IF c = ";" THEN "%3B" ELSE IF c = " " THEN "%20" ELSE c

DecChar(c) == IF c = "%3B" THEN ";" ELSE IF c = "%20" THEN " " ELSE c

encodeURIComponent(s) == [i \in DOMAIN s |-> EncChar(s[i])]

decodeURIComponent(s) == [i \in DOMAIN s |-> DecChar(s[i])]

\* the piece of s before its first ';'  (String.split(';')[0])
RECURSIVE SplitHead(_)
SplitHead(s) ==
    IF s = <<>> \/ Head(s) = ";" THEN <<>>
    ELSE <<Head(s)>> \o SplitHead(Tail(s))

\* String.trim() of "key=" \o s: only trailing blanks of s can go
RECURSIVE TrimEnd(_)
TrimEnd(s) ==
    IF s # <<>> /\ s[Len(s)] = " " THEN TrimEnd(SubSeq(s, 1, Len(s) - 1))
    ELSE s

setCookie(ck, key, value) ==
    IF ckBlocked THEN ck ELSE [ck EXCEPT ![key] = encodeURIComponent(value)]

getCookie(ck, key) ==
    IF ck[key] = NULL THEN NULL
    ELSE TrimEnd(SplitHead(decodeURIComponent(ck[key])))

deleteCookie(ck, key) == [ck EXCEPT ![key] = NULL]

(***************************************************************************)
(* IndexedDB helpers: every failure is swallowed.                          *)
(***************************************************************************)
setIndexedDB(idb, key, value) ==
    IF idbDown THEN idb ELSE [idb EXCEPT ![key] = value]

getIndexedDB(idb, key) ==
    IF idbDown THEN NULL
    ELSE IF Truthy(idb[key]) THEN idb[key] ELSE NULL

deleteIndexedDB(idb, key) ==
    IF idbDown THEN idb ELSE [idb EXCEPT ![key] = NULL]

(***************************************************************************)
(* Multi-layer storage.  A store is [ls, ck, idb]; each helper returns the *)
(* store it leaves and what it returned (out).  localStorage.setItem is    *)
(* not guarded: when it throws the helper rejects at that line.            *)
(***************************************************************************)
Store == [ls |-> localStorage, ck |-> cookieJar, idb |-> indexedDB]

saveToAllStorages(S, key, value) ==
    IF lsFull THEN [S |-> S, out |-> THREW]
    ELSE [S |-> [ls  |-> [S.ls EXCEPT ![key] = value],
                 ck  |-> setCookie(S.ck, key, value),
                 idb |-> setIndexedDB(S.idb, key, value)],
          out |-> <<>>]

getFromStorages(S, key) ==
    IF Truthy(S.ls[key]) THEN [S |-> S, out |-> S.ls[key]]
    ELSE IF Truthy(getCookie(S.ck, key)) THEN
        IF lsFull THEN [S |-> S, out |-> THREW]
        ELSE [S |-> [S EXCEPT !.ls[key] = getCookie(S.ck, key)],
              out |-> getCookie(S.ck, key)]
    ELSE IF Truthy(getIndexedDB(S.idb, key)) THEN
        IF lsFull THEN [S |-> S, out |-> THREW]
        ELSE [S |-> [S EXCEPT !.ls[key] = S.idb[key],
                              !.ck = setCookie(S.ck, key, S.idb[key])],
              out |-> S.idb[key]]
    ELSE [S |-> S, out |-> NULL]

clearFromAllStorages(S, key) ==
    [ls  |-> [S.ls EXCEPT ![key] = NULL],
     ck  |-> deleteCookie(S.ck, key),
     idb |-> deleteIndexedDB(S.idb, key)]

clearAllAuthStorage(S) ==
    clearFromAllStorages(
        clearFromAllStorages(clearFromAllStorages(S, KeyToken), KeyUser),
        KeyExpiry)

(***************************************************************************)
(* Storage variant of googleAuthService.ts (token kept in storage).        *)
(* stRes = [op, key, out]: the helper or handler that ran last, the key it *)
(* was given and what it returned.                                         *)
(***************************************************************************)
UserStrs == StrVals

SetStore(S) ==
    /\ localStorage' = S.ls
    /\ cookieJar' = S.ck
    /\ indexedDB' = S.idb

\* updateUserCredits / fetchUserInfo: saveToAllStorages(keys.user, text)
CallSave(value) ==
    LET r == saveToAllStorages(Store, KeyUser, value) IN
    /\ SetStore(r.S)
    /\ stRes' = [op |-> "save", key |-> KeyUser, out |-> r.out]
    /\ UNCHANGED <<envVars, authVars, idVars>>
    /\ UNCHANGED <<subVars, appVars, svcVars>>

\* getAccessToken / getCurrentUser / shouldRefreshToken: getFromStorages(key)
CallGet(key) ==
    LET r == getFromStorages(Store, key) IN
    /\ SetStore(r.S)
    /\ stRes' = [op |-> "get", key |-> key, out |-> r.out]
    /\ UNCHANGED <<envVars, authVars, idVars>>
    /\ UNCHANGED <<subVars, appVars, svcVars>>

\* handleGoogleCredentialResponse: resp is the outcome of /auth/google
V1Credential(resp, user) ==
    LET s1 == saveToAllStorages(Store, KeyToken, TokStr)
        s2 == saveToAllStorages(s1.S, KeyUser, user)
        s3 == saveToAllStorages(s2.S, KeyExpiry, ExpStr)
    IN
    /\ IF resp = "ok" /\ s1.out # THREW
         THEN /\ SetStore(s3.S)
              /\ stRes' = [op |-> "credential", key |-> KeyUser, out |-> user]
         ELSE /\ UNCHANGED <<localStorage, cookieJar, indexedDB>>
              /\ stRes' = [op |-> "credential", key |-> KeyUser,
                           out |-> IF resp = "nosuccess" THEN <<>> ELSE NULL]
    /\ UNCHANGED <<envVars, authVars, idVars>>
    /\ UNCHANGED <<subVars, appVars, svcVars>>

\* signOut: clearAllAuthStorage, then logout and notify(null)
V1SignOut ==
    /\ SetStore(clearAllAuthStorage(Store))
    /\ stRes' = [op |-> "signOut", key |-> KeyUser, out |-> NULL]
    /\ UNCHANGED <<envVars, authVars, idVars>>
    /\ UNCHANGED <<subVars, appVars, svcVars>>

\* refreshToken: resp is the outcome of /auth/refresh
V1Refresh(resp) ==
    LET g  == getFromStorages(Store, KeyToken)
        s1 == saveToAllStorages(g.S, KeyToken, TokStr)
        s2 == saveToAllStorages(s1.S, KeyExpiry, ExpStr)
    IN
    /\ IF g.out = THREW \/ g.out = NULL
         THEN /\ SetStore(g.S)
              /\ stRes' = [op |-> "refresh", key |-> KeyToken, out |-> g.out]
         ELSE IF resp = "notok"
         THEN /\ SetStore(clearAllAuthStorage(g.S))
              /\ stRes' = [op |-> "refresh", key |-> KeyToken, out |-> NULL]
         ELSE IF resp = "ok" /\ s1.out # THREW
         THEN /\ SetStore(s2.S)
              /\ stRes' = [op |-> "refresh", key |-> KeyToken, out |-> TokStr]
         ELSE /\ SetStore(g.S)
              /\ stRes' = [op |-> "refresh", key |-> KeyToken, out |-> NULL]
    /\ UNCHANGED <<envVars, authVars, idVars>>
    /\ UNCHANGED <<subVars, appVars, svcVars>>

\* the user clears one layer in the browser; the quota fills up or frees
EnvClearLocalStorage ==
    /\ localStorage' = [k \in Keys |-> NULL]
    /\ sessLs' = [uid |-> "null", credits |-> 0]
    /\ UNCHANGED <<cookieJar, indexedDB, stRes, envVars, idVars>>
    /\ UNCHANGED <<accessToken, sessCk, sessIdb, gsiInit, polling, lastNotified, thr>>
    /\ lsGeminiKey' = NoKey
    /\ UNCHANGED <<subVars, apiKey, appUser, showApiKeyModal, pendingAutoGenerate,
                   selectedImage, chose, genMode, svcVars>>

EnvClearCookies ==
    /\ cookieJar' = [k \in Keys |-> NULL]
    /\ sessCk' = [uid |-> "null", credits |-> 0]
    /\ idCookie' = NULL
    /\ UNCHANGED <<localStorage, indexedDB, stRes, envVars>>
    /\ UNCHANGED <<cachedUserId, idIdb, uUserId, uIdb, idOp, idRes>>
    /\ UNCHANGED <<accessToken, sessLs, sessIdb, gsiInit, polling, lastNotified, thr>>
    /\ UNCHANGED <<subVars, appVars, svcVars>>

EnvClearIndexedDB ==
    /\ indexedDB' = [k \in Keys |-> NULL]
    /\ sessIdb' = [uid |-> "null", credits |-> 0]
    /\ idIdb' = NULL
    /\ uIdb' = NULL
    /\ UNCHANGED <<localStorage, cookieJar, stRes, envVars>>
    /\ UNCHANGED <<cachedUserId, idCookie, uUserId, idOp, idRes>>
    /\ UNCHANGED <<accessToken, sessLs, sessCk, gsiInit, polling, lastNotified, thr>>
    /\ UNCHANGED <<subVars, appVars, svcVars>>

EnvQuota ==
    /\ lsFull' = ~lsFull
    /\ UNCHANGED <<ckBlocked, idbDown, googleLoaded, storeVars, authVars, idVars>>
    /\ UNCHANGED <<subVars, appVars, svcVars>>

Responses == {"ok", "nosuccess", "notok", "reject"}

NextStore ==
    \/ \E v \in StrVals : CallSave(v)
    \/ \E k \in Keys : CallGet(k)
    \/ \E r \in Responses, u \in UserStrs : V1Credential(r, u)
    \/ V1SignOut
    \/ \E r \in Responses : V1Refresh(r)
    \/ EnvClearLocalStorage
    \/ EnvClearCookies
    \/ EnvClearIndexedDB
    \/ EnvQuota

(***************************************************************************)
(* Memory-token variant of googleAuthService.ts.                           *)
(*                                                                         *)
(* An asynchronous operation is a thread: its pc is the await it is        *)
(* suspended at, ret the stack of callers waiting for the function it is   *)
(* in.  Everything between two awaits runs in one step (the event loop     *)
(* runs a continuation to its next await).  A step is a function from the  *)
(* module state G and the thread T to the pair they become.                *)
(***************************************************************************)
Fetchers == 1..NCalls
TSignOut == NCalls + 1
TSignIn  == NCalls + 2
TRefresh == NCalls + 3
TInit    == NCalls + 4
TCredits == NCalls + 5
TApi     == NCalls + 6
Threads  == 1..(NCalls + 6)

Tokens   == 1..MaxTok
NoUser   == [uid |-> "null", credits |-> 0]
Never    == [uid |-> "never", credits |-> 0]
Users    == [uid : {"u1"}, credits : 0..MaxCredits]
Statuses == {200, 401}
\* res of a call that rejected
Rejected == -1
\* the values of credits_remaining, and a body without the field
Credits   == 0..(MaxCredits + 1)
NoCredits == -1

IdleT ==
    [pc |-> "idle", ret |-> <<>>, tok |-> 0, resp |-> 0, soTok |-> 0,
     soUser |-> NoUser, refs |-> 0, reqs |-> 0, outs |-> 0, newTok |-> 0,
     sentTok |-> 0, retry |-> 0, res |-> 0, rv |-> "none", user |-> NoUser,
     notes |-> 0, inits |-> 0, mes |-> 0, pre |-> NoUser, helper |-> "none",
     cr |-> NoCredits, upd |-> 0, lo |-> "none"]

\* the call has notified the subscribers once more
Noted(T) == [T EXCEPT !.notes = @ + 1]

CurG ==
    [accessToken |-> accessToken, sessLs |-> sessLs, sessCk |-> sessCk,
     sessIdb |-> sessIdb, gsiInit |-> gsiInit, polling |-> polling,
     lastNotified |-> lastNotified,
     authStateCallbacks |-> authStateCallbacks, invoked |-> invoked]

Active == Cardinality({t \in Threads : thr[t].pc \notin {"idle", "done"}})

CanStart(t, cap) == thr[t].pc \in {"idle", "done"} /\ Active < cap

\* the step of thread t that turns (G, T) into r.G, r.T; the record of a
\* call that has returned is kept until another call takes a step
Commit(t, r) ==
    /\ accessToken' = r.G.accessToken
    /\ sessLs' = r.G.sessLs
    /\ sessCk' = r.G.sessCk
    /\ sessIdb' = r.G.sessIdb
    /\ gsiInit' = r.G.gsiInit
    /\ polling' = r.G.polling
    /\ lastNotified' = r.G.lastNotified
    /\ thr' = [u \in Threads |-> IF u = t THEN r.T
                                ELSE IF thr[u].pc = "done" THEN IdleT
                                ELSE thr[u]]
    /\ UNCHANGED <<storeVars, envVars, idVars>>
    /\ invoked' = r.G.invoked
    /\ UNCHANGED <<authStateCallbacks, cbCount, disposed, appVars, svcVars>>

(***************************************************************************)
(* multiStorageService (imported by the service, its file is not part of   *)
(* the sources): set / get / getSync / remove of the Durable Key-Value     *)
(* Store.  The cache and the cookie are written in the call, the           *)
(* transactional store when the returned promise settles; a layer that is  *)
(* disabled drops the write; nothing throws.                               *)
(***************************************************************************)
multiSetSync(G, user) ==
    [G EXCEPT !.sessLs = user,
              !.sessCk = IF ckBlocked THEN @ ELSE user]

multiSetDone(G, user) ==
    [G EXCEPT !.sessIdb = IF idbDown THEN @ ELSE user]

multiGetSync(G) == IF G.sessLs # NoUser THEN G.sessLs ELSE G.sessCk

multiGet(G) ==
    IF G.sessLs # NoUser THEN G.sessLs
    ELSE IF G.sessCk # NoUser THEN G.sessCk
    ELSE IF idbDown THEN NoUser ELSE G.sessIdb

multiRemoveSync(G) == [G EXCEPT !.sessLs = NoUser, !.sessCk = NoUser]

multiRemoveDone(G) == [G EXCEPT !.sessIdb = NoUser]

(***************************************************************************)
(* onAuthStateChange / notifyAuthStateChange, getters                      *)
(***************************************************************************)
\* authStateCallbacks.forEach(cb => cb(user))
notifyAuthStateChange(G, user) ==
    [G EXCEPT !.lastNotified = user, !.invoked = G.authStateCallbacks]

getAccessToken(G) == G.accessToken

getCurrentUserSync(G) == multiGetSync(G)

getCurrentUser(G) == multiGet(G)

isAuthenticated(G) == G.accessToken # 0 /\ getCurrentUserSync(G) # NoUser

(***************************************************************************)
(* initGoogleAuth: registers the credential callback at once when the SDK  *)
(* is there; otherwise starts the 100 ms checkGoogleLoaded chain and the   *)
(* promise stays pending (pc so_init) until the chain finds the SDK or the *)
(* 10 s timer rejects.                                                     *)
(***************************************************************************)
initGoogleAuth(G) ==
    IF googleLoaded THEN [G EXCEPT !.gsiInit = TRUE]
    ELSE [G EXCEPT !.polling = TRUE]

(***************************************************************************)
(* signOut                                                                 *)
(***************************************************************************)
\* variant: the in-memory token is left in place
signOutBegin_keepsToken(G, T, from) ==
    [G |-> multiRemoveSync(G),
     T |-> [T EXCEPT !.pc = "so_remove",
                     !.ret = <<from>> \o @,
                     !.soUser = getCurrentUserSync(G),
                     !.soTok = G.accessToken,
                     !.lo = "none",
                     !.outs = @ + 1]]

\* lines 981-988: read user and token, clear the token, call multiRemove
signOutBegin(G, T, from) ==
    [G |-> multiRemoveSync([G EXCEPT !.accessToken = 0]),
     T |-> [T EXCEPT !.pc = "so_remove",
                     !.ret = <<from>> \o @,
                     !.soUser = getCurrentUserSync(G),
                     !.soTok = G.accessToken,
                     !.lo = "none",
                     !.outs = @ + 1]]

\* authenticatedFetch, line 1227 after line 1224: return response
afReturnResponse(G, T) ==
    [G |-> G, T |-> [T EXCEPT !.pc = "done", !.ret = <<>>, !.res = T.resp]]

\* variant: the retry re-sends the token the call started with
afAfterRefresh_staleToken(G, T, refreshed) ==
    IF refreshed
      THEN [G |-> G,
            T |-> [T EXCEPT !.pc = "af_retry", !.sentTok = T.tok, !.reqs = @ + 1]]
      ELSE signOutBegin(G, T, "af")

\* variant: a failed refresh hands the 401 back without signing out
afAfterRefresh_noSignOut(G, T, refreshed) ==
    IF refreshed
      THEN [G |-> G,
            T |-> [T EXCEPT !.pc = "af_retry",
                            !.sentTok = getAccessToken(G),
                            !.reqs = @ + 1]]
      ELSE afReturnResponse(G, T)

\* authenticatedFetch, lines 1217-1224: what follows await refreshToken()
afAfterRefresh(G, T, refreshed) ==
    IF refreshed
      THEN [G |-> G,
            T |-> [T EXCEPT !.pc = "af_retry",
                            !.sentTok = getAccessToken(G),
                            !.reqs = @ + 1]]
      ELSE signOutBegin(G, T, "af")

\* refreshToken, lines 1076-1084: POST /auth/refresh
refreshTokenBegin(G, T, from) ==
    [G |-> G,
     T |-> [T EXCEPT !.pc = "rt_fetch", !.ret = <<from>> \o @, !.refs = @ + 1]]

\* initializeAuth, lines 1164-1170 and 1186-1192: await initGoogleAuth() in a
\* try/catch, return null
iaInit(G, T) ==
    LET G1 == initGoogleAuth(G)
        T1 == [T EXCEPT !.inits = @ + 1]
    IN
    IF googleLoaded
      THEN [G |-> G1, T |-> [T1 EXCEPT !.pc = "done", !.ret = <<>>, !.rv = "null"]]
      ELSE [G |-> G1, T |-> [T1 EXCEPT !.pc = "ia_init"]]

\* variant: the refresh is tried whether or not a user was ever stored
iaRestore_alwaysRefresh(G, T) == refreshTokenBegin(G, T, "ia")

\* initializeAuth, lines 1163-1175: no stored user, nothing to restore;
\* otherwise await refreshToken()
iaRestore(G, T) ==
    IF getCurrentUserSync(G) = NoUser THEN iaInit(G, T)
    ELSE refreshTokenBegin(G, T, "ia")

\* fetchUserInfo returns to initializeAuth: lines 1157-1160 ("ia1") and
\* 1177-1181 ("ia2")
fetchUserInfoReturn(G, T, user) ==
    LET T1 == [T EXCEPT !.ret = Tail(@)] IN
    IF user # NoUser
      THEN [G |-> G,
            T |-> [T1 EXCEPT !.pc = "done", !.ret = <<>>, !.rv = "user",
                             !.user = user]]
    ELSE IF Head(T.ret) = "ia1" THEN iaRestore(G, T1)
    ELSE iaInit(G, T1)

\* fetchUserInfo, lines 1110-1119: no token, return null; else GET /auth/me
fetchUserInfoBegin(G, T, from) ==
    IF getAccessToken(G) = 0
      THEN fetchUserInfoReturn(G, [T EXCEPT !.ret = <<from>> \o @], NoUser)
      ELSE [G |-> G,
            T |-> [T EXCEPT !.pc = "fu_req", !.ret = <<from>> \o @,
                            !.mes = @ + 1]]

\* refreshToken returns to the function that awaited it
refreshTokenReturn(G, T, ok) ==
    LET T1 == [T EXCEPT !.ret = Tail(@), !.rv = IF ok THEN "true" ELSE "false"]
    IN
    IF Head(T.ret) = "af" THEN afAfterRefresh(G, T1, ok)
    ELSE IF Head(T.ret) = "ia"
      THEN IF ok THEN fetchUserInfoBegin(G, T1, "ia2") ELSE iaInit(G, T1)
    ELSE [G |-> G, T |-> [T1 EXCEPT !.pc = "done"]]

\* signOut returns to the function that awaited it
signOutReturn(G, T) ==
    LET T1 == [T EXCEPT !.ret = Tail(@)] IN
    IF Head(T.ret) = "rt" THEN refreshTokenReturn(G, T1, FALSE)
    ELSE IF Head(T.ret) = "af" THEN afReturnResponse(G, T1)
    ELSE IF Head(T.ret) = "fu" THEN fetchUserInfoReturn(G, T1, NoUser)
    ELSE [G |-> G, T |-> [T1 EXCEPT !.pc = "done"]]

\* lines 1017-1025: notify(null), then await initGoogleAuth()
signOutNotify(G, T) ==
    LET G1 == initGoogleAuth(notifyAuthStateChange(G, NoUser))
        T1 == [Noted(T) EXCEPT !.inits = @ + 1]
    IN
    IF googleLoaded THEN signOutReturn(G1, T1)
    ELSE [G |-> G1, T |-> [T1 EXCEPT !.pc = "so_init"]]

\* how POST /auth/logout ended: answered 2xx, answered an error status, or
\* the fetch rejected
LogoutOutcomes == {"ok", "notok", "reject"}

\* variant: a rejected logout request ends signOut before the notification
signOutLoggedOut_throws(G, T, outcome) ==
    IF outcome = "reject" THEN signOutReturn(G, [T EXCEPT !.lo = outcome])
    ELSE signOutNotify(G, [T EXCEPT !.lo = outcome])

\* lines 1002-1016: the response is not looked at and the catch swallows a
\* rejection
signOutLoggedOut(G, T, outcome) == signOutNotify(G, [T EXCEPT !.lo = outcome])

\* lines 988-1012: multiRemove settled; POST /auth/logout when a token was held
signOutRemoved(G, T) ==
    IF T.soTok # 0
      THEN [G |-> multiRemoveDone(G), T |-> [T EXCEPT !.pc = "so_logout"]]
      ELSE signOutNotify(multiRemoveDone(G), T)

(***************************************************************************)
(* authenticatedFetch                                                      *)
(***************************************************************************)
\* lines 1202-1213: read the token, send the request
AfStart(t, cap) ==
    /\ CanStart(t, cap)
    /\ Commit(t, [G |-> CurG,
                  T |-> [IdleT EXCEPT !.pc = "af_req",
                                      !.tok = getAccessToken(CurG),
                                      !.sentTok = getAccessToken(CurG),
                                      !.reqs = 1]])

\* lines 1216-1227: the first response
afFirstResponse(G, T, status) ==
    IF status = 401 /\ T.tok # 0
      THEN refreshTokenBegin(G, [T EXCEPT !.resp = status], "af")
      ELSE afReturnResponse(G, [T EXCEPT !.resp = status])

AfResponse(t, status) ==
    /\ thr[t].pc = "af_req"
    /\ Commit(t, afFirstResponse(CurG, thr[t], status))

\* fetch rejects: authenticatedFetch rejects (first request or retry)
AfRejected(t) ==
    /\ thr[t].pc \in {"af_req", "af_retry"}
    /\ Commit(t, [G |-> CurG,
                  T |-> [thr[t] EXCEPT !.pc = "done", !.ret = <<>>, !.res = Rejected]])

\* line 1221: the retry's response is returned as it is
AfRetryResponse(t, status) ==
    /\ thr[t].pc = "af_retry"
    /\ Commit(t, [G |-> CurG,
                  T |-> [thr[t] EXCEPT !.pc = "done", !.ret = <<>>,
                                       !.retry = status, !.res = status]])

(***************************************************************************)
(* refreshToken                                                            *)
(***************************************************************************)
\* a direct call of the exported function
RtStart(cap) ==
    /\ CanStart(TRefresh, cap)
    /\ Commit(TRefresh, refreshTokenBegin(CurG, IdleT, "top"))

\* lines 1086-1103: how the fetch of /auth/refresh ended
\*   "reject"    fetch (or response.json) rejects: the catch returns false
\*   "notok"     !response.ok: await signOut(), return false
\*   "nosuccess" 2xx without success/access_token: return false
\*   "ok"        2xx with a token: install it, return true
refreshTokenResponse(G, T, outcome, tok) ==
    IF outcome = "notok" THEN signOutBegin(G, T, "rt")
    ELSE IF outcome = "ok"
      THEN refreshTokenReturn([G EXCEPT !.accessToken = tok],
                              [T EXCEPT !.newTok = tok], TRUE)
      ELSE refreshTokenReturn(G, T, FALSE)

RtResponse(t, outcome, tok) ==
    /\ thr[t].pc = "rt_fetch"
    /\ Commit(t, refreshTokenResponse(CurG, thr[t], outcome, tok))

(***************************************************************************)
(* signOut, as called from the profile menu, and its awaits                *)
(***************************************************************************)
SoStart(cap) ==
    /\ CanStart(TSignOut, cap)
    /\ Commit(TSignOut, signOutBegin(CurG, IdleT, "top"))

SoRemoveDone(t) ==
    /\ thr[t].pc = "so_remove"
    /\ Commit(t, signOutRemoved(CurG, thr[t]))

\* /auth/logout answered or failed: both are ignored
SoLogoutDone(t, outcome) ==
    /\ thr[t].pc = "so_logout"
    /\ Commit(t, signOutLoggedOut(CurG, thr[t], outcome))

\* checkGoogleLoaded finds the SDK: initialize, resolve
SoInitResolved(t) ==
    /\ thr[t].pc = "so_init"
    /\ googleLoaded
    /\ Commit(t, signOutReturn([CurG EXCEPT !.gsiInit = TRUE, !.polling = FALSE],
                               thr[t]))

\* the 10 s timer rejects; signOut catches it; the timer chain goes on
SoInitTimedOut(t) ==
    /\ thr[t].pc = "so_init"
    /\ Commit(t, signOutReturn(CurG, thr[t]))

(***************************************************************************)
(* handleGoogleCredentialResponse / authenticateWithServer                 *)
(***************************************************************************)
SiStart(cap) ==
    /\ CanStart(TSignIn, cap)
    /\ googleLoaded /\ gsiInit
    /\ Commit(TSignIn, [G |-> CurG, T |-> [IdleT EXCEPT !.pc = "si_auth"]])

\* lines 892-913: how the exchange with /auth/google ended
\*   "reject", "notok": authenticateWithServer throws, the catch notifies null
\*   "nosuccess": 2xx with success false: nothing is done
\*   "ok": token into memory, multiSet(user)
credentialResponse(G, T, outcome, tok, user) ==
    IF outcome = "ok"
      THEN [G |-> multiSetSync([G EXCEPT !.accessToken = tok], user),
            T |-> [T EXCEPT !.pc = "si_set", !.user = user, !.newTok = tok]]
    ELSE IF outcome = "nosuccess"
      THEN [G |-> G, T |-> [T EXCEPT !.pc = "done", !.rv = "nosuccess"]]
      ELSE [G |-> notifyAuthStateChange(G, NoUser),
            T |-> Noted([T EXCEPT !.pc = "done", !.rv = "threw"])]

SiResponse(outcome, tok, user) ==
    /\ thr[TSignIn].pc = "si_auth"
    /\ Commit(TSignIn, credentialResponse(CurG, thr[TSignIn], outcome, tok, user))

\* lines 906-908: multiSet settled, notify(user)
SiSetDone ==
    /\ thr[TSignIn].pc = "si_set"
    /\ Commit(TSignIn,
              [G |-> notifyAuthStateChange(multiSetDone(CurG, thr[TSignIn].user),
                                           thr[TSignIn].user),
               T |-> Noted([thr[TSignIn] EXCEPT !.pc = "done", !.rv = "true"])])

(***************************************************************************)
(* initializeAuth and the fetchUserInfo calls it awaits                    *)
(***************************************************************************)
\* lines 1154-1161: a token in memory is verified with fetchUserInfo first
IaStart(cap) ==
    /\ CanStart(TInit, cap)
    /\ LET T0 == [IdleT EXCEPT !.tok = accessToken,
                               !.pre = getCurrentUser(CurG)]
       IN
       Commit(TInit, IF accessToken # 0
                       THEN fetchUserInfoBegin(CurG, T0, "ia1")
                       ELSE iaRestore(CurG, T0))

\* how GET /auth/me ended
\*   "ok"     2xx: the profile is stored with multiSet
\*   "unauth" 401: await signOut(), return null
\*   "error"  another status, or the fetch rejects: return null
FuOutcomes == {"ok", "unauth", "error"}

\* fetchUserInfo, lines 1121-1140
fetchUserInfoResponse(G, T, outcome, user) ==
    IF outcome = "ok"
      THEN [G |-> multiSetSync(G, user),
            T |-> [T EXCEPT !.pc = "fu_set", !.user = user]]
    ELSE IF outcome = "unauth" THEN signOutBegin(G, T, "fu")
    ELSE fetchUserInfoReturn(G, T, NoUser)

FuResponse(t, outcome, user) ==
    /\ thr[t].pc = "fu_req"
    /\ Commit(t, fetchUserInfoResponse(CurG, thr[t], outcome, user))

\* lines 1140-1143: multiSet settled, notify(user), return user
FuSetDone(t) ==
    /\ thr[t].pc = "fu_set"
    /\ Commit(t, fetchUserInfoReturn(
                     notifyAuthStateChange(multiSetDone(CurG, thr[t].user),
                                           thr[t].user),
                     Noted(thr[t]), thr[t].user))

\* checkGoogleLoaded finds the SDK: initialize, resolve, return null
IaInitResolved(t) ==
    /\ thr[t].pc = "ia_init"
    /\ googleLoaded
    /\ Commit(t, [G |-> [CurG EXCEPT !.gsiInit = TRUE, !.polling = FALSE],
                  T |-> [thr[t] EXCEPT !.pc = "done", !.ret = <<>>,
                                       !.rv = "null"]])

\* the 10 s timer rejects; initializeAuth catches it and returns null; the
\* timer chain goes on
IaInitTimedOut(t) ==
    /\ thr[t].pc = "ia_init"
    /\ Commit(t, [G |-> CurG,
                  T |-> [thr[t] EXCEPT !.pc = "done", !.ret = <<>>,
                                       !.rv = "null"]])

(***************************************************************************)
(* updateUserCredits: synchronous up to its return; multiSet is not        *)
(* awaited, its transactional-store write lands later (pc uc_idb)          *)
(***************************************************************************)
\* variant: the patch is applied whether or not a user is stored
updateUserCredits_unguarded(G, T, newCredits) ==
    LET updatedUser == [getCurrentUserSync(G) EXCEPT !.credits = newCredits] IN
    [G |-> notifyAuthStateChange(multiSetSync(G, updatedUser), updatedUser),
     T |-> Noted([T EXCEPT !.pc = "uc_idb", !.user = updatedUser,
                           !.upd = @ + 1])]

updateUserCredits(G, T, newCredits) ==
    LET user == getCurrentUserSync(G)
        updatedUser == [user EXCEPT !.credits = newCredits]
    IN
    IF user = NoUser
      THEN [G |-> G, T |-> [T EXCEPT !.pc = "done", !.upd = @ + 1]]
      ELSE [G |-> notifyAuthStateChange(multiSetSync(G, updatedUser),
                                        updatedUser),
            T |-> Noted([T EXCEPT !.pc = "uc_idb", !.user = updatedUser,
                                  !.upd = @ + 1])]

\* a direct call
UcStart(newCredits, cap) ==
    /\ CanStart(TCredits, cap)
    /\ Commit(TCredits,
              updateUserCredits(CurG,
                                [IdleT EXCEPT !.pre = getCurrentUser(CurG),
                                              !.cr = newCredits],
                                newCredits))

\* the transactional-store write of the multiSet that was not awaited
UcIdbDone(t) ==
    /\ thr[t].pc = "uc_idb"
    /\ Commit(t, [G |-> multiSetDone(CurG, thr[t].user),
                  T |-> [thr[t] EXCEPT !.pc = "done"]])

(***************************************************************************)
(* The request helpers that receive bodies carrying credits_remaining:     *)
(* serverFetch and pollJobStatus of geminiService (own fetch with the      *)
(* bearer token), deleteJob and getJob of the history service (through     *)
(* authenticatedFetch, whose returned response is the input here).  One    *)
(* round of pollJobStatus' loop is modelled; every round treats the body   *)
(* the same way.                                                           *)
(***************************************************************************)
Helpers == {"serverFetch", "pollJobStatus", "deleteJob", "getJob"}

OwnFetch == {"serverFetch", "pollJobStatus"}

\* up to the await of the request; serverFetch and pollJobStatus throw
\* without a token
ApiStart(h, cap) ==
    /\ CanStart(TApi, cap)
    /\ Commit(TApi,
              [G |-> CurG,
               T |-> IF h \in OwnFetch /\ getAccessToken(CurG) = 0
                       THEN [IdleT EXCEPT !.pc = "done", !.helper = h,
                                          !.rv = "threw"]
                       ELSE [IdleT EXCEPT !.pc = "api_req", !.helper = h,
                                          !.tok = getAccessToken(CurG),
                                          !.reqs = 1]])

\* the response: not ok ends the helper; an ok body is parsed, and the
\* geminiService helpers pass a credits_remaining field to updateUserCredits
helperResponse(G, T, ok, cr) ==
    IF ~ok
      THEN [G |-> G, T |-> [T EXCEPT !.pc = "done", !.rv = "error"]]
    ELSE IF T.helper \in OwnFetch /\ cr # NoCredits
      THEN updateUserCredits(G, [T EXCEPT !.cr = cr, !.rv = "data"], cr)
    ELSE [G |-> G, T |-> [T EXCEPT !.pc = "done", !.cr = cr, !.rv = "data"]]

ApiResponse(ok, cr) ==
    /\ thr[TApi].pc = "api_req"
    /\ Commit(TApi, helperResponse(CurG, thr[TApi], ok, cr))

(***************************************************************************)
(* onAuthStateChange: every registration passes a closure of its own (the  *)
(* mount effect of App creates one per mount); callbacks are numbered in   *)
(* the order they are created                                              *)
(***************************************************************************)
\* variant: the disposer empties the list
disposer_clearsAll(cbs, callback) == <<>>

\* the returned function: authStateCallbacks.filter(cb => cb !== callback)
disposer(cbs, callback) == SelectSeq(cbs, LAMBDA cb : cb # callback)

\* authStateCallbacks.push(callback)
onAuthStateChange(cbs, callback) == Append(cbs, callback)

Subscribe ==
    /\ cbCount < MaxSubs
    /\ cbCount' = cbCount + 1
    /\ authStateCallbacks' = onAuthStateChange(authStateCallbacks, cbCount + 1)
    /\ UNCHANGED <<invoked, disposed>>
    /\ UNCHANGED <<storeVars, envVars, authVars, idVars, appVars, svcVars>>

\* the disposer of callback c is called (a second call changes nothing)
Dispose(c) ==
    /\ c \in 1..cbCount
    /\ authStateCallbacks' = disposer(authStateCallbacks, c)
    /\ disposed' = disposed \cup {c}
    /\ UNCHANGED <<invoked, cbCount>>
    /\ UNCHANGED <<storeVars, envVars, authVars, idVars, appVars, svcVars>>

(***************************************************************************)
(* Device identity: userIdService (cache, cookie animateimage_userid,      *)
(* IndexedDB 'user_id') and usageService (cache, IndexedDB 'primary').     *)
(* idOp = [pc, fn, id, src, prev, seq] is the call in flight: the await it *)
(* is at, the service, the id it carries, where the id came from, what the *)
(* previous call of that service had returned, and a bit that flips with   *)
(* every call.  idRes keeps the last id each service returned since the    *)
(* last updateUserId (userId, usage), the id the last completed            *)
(* updateUserId was given (forced) and the last id getOrCreateUserId had   *)
(* returned before an updateUserId (anon).                                 *)
(***************************************************************************)
\* generateUserId: 20 random alphanumeric characters; the ids "x", "xx", ...
GenIds == { [j \in 1..i |-> "x"] : i \in 1..MaxIds }

IdleOp ==
    [pc |-> "idle", fn |-> "none", id |-> NULL, src |-> "none", prev |-> NULL,
     seq |-> 0]

\* userIdService setCookie: the value is written as it is; the browser keeps
\* the text before the first ';' of the cookie string
idSetCookie(ck, value) == IF ckBlocked THEN ck ELSE TrimEnd(SplitHead(value))

\* variant: the cookie backup is never found
idGetCookie_ignored(ck) == NULL

\* userIdService getCookie
idGetCookie(ck) ==
    IF ck = NULL THEN NULL ELSE TrimEnd(SplitHead(decodeURIComponent(ck)))

getIdFromIndexedDB(idb) ==
    IF idbDown THEN NULL ELSE IF Truthy(idb) THEN idb ELSE NULL

\* variant: the IndexedDB write is dropped
saveIdToIndexedDB_dropped(idb, userId) == idb

saveIdToIndexedDB(idb, userId) == IF idbDown THEN idb ELSE userId

IdCanStart == idOp.pc \in {"idle", "done"}

\* getOrCreateUserId (refresh = FALSE) and refreshUserId (refresh = TRUE),
\* up to the first await
IdStart(refresh) ==
    /\ IdCanStart
    /\ IF ~refresh /\ Truthy(cachedUserId)
         THEN /\ idOp' = [pc |-> "done", fn |-> "userId", id |-> cachedUserId,
                          src |-> "cache", prev |-> idRes.userId,
                          seq |-> 1 - idOp.seq]
              /\ idRes' = [idRes EXCEPT !.userId = cachedUserId]
              /\ UNCHANGED cachedUserId
         ELSE /\ idOp' = [IdleOp EXCEPT !.pc = "idb_get", !.fn = "userId",
                                        !.prev = idRes.userId,
                                        !.seq = 1 - idOp.seq]
              /\ cachedUserId' = NULL
              /\ UNCHANGED idRes
    /\ UNCHANGED <<idCookie, idIdb, uUserId, uIdb>>
    /\ UNCHANGED <<storeVars, envVars, authVars>>
    /\ UNCHANGED <<subVars, appVars, svcVars>>

\* getIdFromIndexedDB settled: lines 103-124 up to the next await or the return
IdIdbGot(g) ==
    /\ idOp.pc = "idb_get"
    /\ LET fromIdb == getIdFromIndexedDB(idIdb)
           fromCk  == idGetCookie(idCookie)
       IN
       IF Truthy(fromIdb)
         THEN /\ idCookie' = idSetCookie(idCookie, fromIdb)
              /\ cachedUserId' = fromIdb
              /\ idOp' = [idOp EXCEPT !.pc = "done", !.id = fromIdb, !.src = "idb"]
              /\ idRes' = [idRes EXCEPT !.userId = fromIdb]
       ELSE IF Truthy(fromCk)
         THEN /\ idOp' = [idOp EXCEPT !.pc = "restore", !.id = fromCk, !.src = "cookie"]
              /\ UNCHANGED <<idCookie, cachedUserId, idRes>>
         ELSE /\ idOp' = [idOp EXCEPT !.pc = "save_new", !.id = g, !.src = "new"]
              /\ UNCHANGED <<idCookie, cachedUserId, idRes>>
    /\ UNCHANGED <<idIdb, uUserId, uIdb>>
    /\ UNCHANGED <<storeVars, envVars, authVars>>
    /\ UNCHANGED <<subVars, appVars, svcVars>>

\* saveIdToIndexedDB settled: setCookie, fill the cache, return
IdSaved ==
    /\ idOp.pc \in {"restore", "save_new"}
    /\ idOp2.pc = "idb_get" => idOp2.behind
    /\ idIdb' = saveIdToIndexedDB(idIdb, idOp.id)
    /\ idCookie' = idSetCookie(idCookie, idOp.id)
    /\ cachedUserId' = idOp.id
    /\ idOp' = [idOp EXCEPT !.pc = "done"]
    /\ idRes' = [idRes EXCEPT !.userId = idOp.id]
    /\ UNCHANGED <<uUserId, uIdb>>
    /\ UNCHANGED <<storeVars, envVars, authVars>>
    /\ UNCHANGED <<subVars, appVars, svcVars>>

\* A second getOrCreateUserId call, made while the first may be at an await.
\* first is set when the call began with the other call pending and no id in
\* the cache, the cookie or IndexedDB.  IndexedDB runs the transactions on
\* the store in the order they were created: behind is set when the other
\* call's write was already asked for, so that this call's read follows it;
\* otherwise this call's read comes before the other call's write.
IdleOp2 ==
    [pc |-> "idle", id |-> NULL, src |-> "none", first |-> FALSE,
     behind |-> FALSE]

Id2Frame ==
    /\ UNCHANGED <<idOp, idRes, uUserId, uIdb, gem, usage>>
    /\ UNCHANGED <<storeVars, envVars, authVars, subVars, appVars>>

\* lines 97-103
Id2Start ==
    /\ idOp2.pc \in {"idle", "done"}
    /\ idOp.fn = "userId"
    /\ idOp2' = IF Truthy(cachedUserId)
                  THEN [IdleOp2 EXCEPT !.pc = "done", !.id = cachedUserId,
                                       !.src = "cache"]
                  ELSE [IdleOp2 EXCEPT
                          !.pc = "idb_get",
                          !.first = /\ idOp.pc \notin {"idle", "done"}
                                    /\ idCookie = NULL /\ idIdb = NULL,
                          !.behind = idOp.pc \in {"restore", "save_new"}]
    /\ UNCHANGED <<cachedUserId, idCookie, idIdb>>
    /\ Id2Frame

\* lines 103-124 up to the next await or the return
Id2IdbGot(g) ==
    /\ idOp2.pc = "idb_get"
    /\ idOp2.behind => idOp.pc \in {"idle", "done"}
    /\ LET fromIdb == getIdFromIndexedDB(idIdb)
           fromCk  == idGetCookie(idCookie)
       IN
       IF Truthy(fromIdb)
         THEN /\ idCookie' = idSetCookie(idCookie, fromIdb)
              /\ cachedUserId' = fromIdb
              /\ idOp2' = [idOp2 EXCEPT !.pc = "done", !.id = fromIdb, !.src = "idb"]
       ELSE IF Truthy(fromCk)
         THEN /\ idOp2' = [idOp2 EXCEPT !.pc = "restore", !.id = fromCk, !.src = "cookie"]
              /\ UNCHANGED <<idCookie, cachedUserId>>
         ELSE /\ idOp2' = [idOp2 EXCEPT !.pc = "save_new", !.id = g, !.src = "new"]
              /\ UNCHANGED <<idCookie, cachedUserId>>
    /\ UNCHANGED idIdb
    /\ Id2Frame

\* saveIdToIndexedDB settled: setCookie, fill the cache, return
Id2Saved ==
    /\ idOp2.pc \in {"restore", "save_new"}
    /\ idIdb' = saveIdToIndexedDB(idIdb, idOp2.id)
    /\ idCookie' = idSetCookie(idCookie, idOp2.id)
    /\ cachedUserId' = idOp2.id
    /\ idOp2' = [idOp2 EXCEPT !.pc = "done"]
    /\ Id2Frame

\* updateUserId(newUserId) up to await saveIdToIndexedDB: the cache and the
\* cookie take the id the server issued
UpdStart(newUserId) ==
    /\ IdCanStart
    /\ cachedUserId' = newUserId
    /\ idCookie' = idSetCookie(idCookie, newUserId)
    /\ idOp' = [IdleOp EXCEPT !.pc = "upd_save", !.fn = "update",
                              !.id = newUserId, !.prev = idRes.userId,
                              !.seq = 1 - idOp.seq]
    /\ idRes' = [idRes EXCEPT !.userId = NULL, !.forced = NULL,
                              !.anon = IF idRes.userId # NULL
                                         THEN idRes.userId ELSE idRes.anon]
    /\ UNCHANGED <<idIdb, uUserId, uIdb>>
    /\ UNCHANGED <<storeVars, envVars, authVars>>
    /\ UNCHANGED <<subVars, appVars, svcVars>>

\* saveIdToIndexedDB settled: updateUserId returns
UpdSaved ==
    /\ idOp.pc = "upd_save"
    /\ idIdb' = saveIdToIndexedDB(idIdb, idOp.id)
    /\ idOp' = [idOp EXCEPT !.pc = "done"]
    /\ idRes' = [idRes EXCEPT !.forced = idOp.id]
    /\ UNCHANGED <<cachedUserId, idCookie, uUserId, uIdb>>
    /\ UNCHANGED <<storeVars, envVars, authVars>>
    /\ UNCHANGED <<subVars, appVars, svcVars>>

\* getUserId: the cache, synchronously
getUserId == cachedUserId

\* usageService getOrCreateUserId up to await openDatabase()
UStart ==
    /\ IdCanStart
    /\ IF Truthy(uUserId)
         THEN /\ idOp' = [pc |-> "done", fn |-> "usage", id |-> uUserId,
                          src |-> "cache", prev |-> idRes.usage,
                          seq |-> 1 - idOp.seq]
              /\ idRes' = [idRes EXCEPT !.usage = uUserId]
         ELSE /\ idOp' = [IdleOp EXCEPT !.pc = "u_open", !.fn = "usage",
                                        !.prev = idRes.usage,
                                        !.seq = 1 - idOp.seq]
              /\ UNCHANGED idRes
    /\ UNCHANGED <<cachedUserId, idCookie, idIdb, uUserId, uIdb>>
    /\ UNCHANGED <<storeVars, envVars, authVars>>
    /\ UNCHANGED <<subVars, appVars, svcVars>>

\* openDatabase settled; the readwrite transaction gets 'primary' and puts a
\* new id when there is none; a failed open rejects the call
UOpened(g) ==
    /\ idOp.pc = "u_open"
    /\ IF idbDown
         THEN /\ idOp' = [idOp EXCEPT !.pc = "done", !.id = THREW, !.src = "none"]
              /\ UNCHANGED <<uUserId, uIdb, idRes>>
       ELSE IF Truthy(uIdb)
         THEN /\ uUserId' = uIdb
              /\ idOp' = [idOp EXCEPT !.pc = "done", !.id = uIdb, !.src = "idb"]
              /\ idRes' = [idRes EXCEPT !.usage = uIdb]
              /\ UNCHANGED uIdb
         ELSE /\ uIdb' = g
              /\ uUserId' = g
              /\ idOp' = [idOp EXCEPT !.pc = "done", !.id = g, !.src = "new"]
              /\ idRes' = [idRes EXCEPT !.usage = g]
    /\ UNCHANGED <<cachedUserId, idCookie, idIdb>>
    /\ UNCHANGED <<storeVars, envVars, authVars>>
    /\ UNCHANGED <<subVars, appVars, svcVars>>

(***************************************************************************)
(* The App component: the API key, the modal and the choice of how a       *)
(* generation is run.  chose remembers what the user last submitted in the *)
(* modal; the component stores the key and nothing else.                   *)
(***************************************************************************)
UseCredits == "USE_CREDITS"

AppFrame == UNCHANGED <<storeVars, envVars, authVars, idVars, subVars, svcVars>>

\* handleApiKeySubmit, lines 164-189
handleApiKeySubmit(key) ==
    /\ showApiKeyModal
    /\ IF key = UseCredits
         THEN /\ showApiKeyModal' = FALSE
              /\ chose' = "credits"
              /\ IF pendingAutoGenerate /\ selectedImage /\ appUser
                   THEN pendingAutoGenerate' = FALSE /\ genMode' = "credits"
                   ELSE UNCHANGED <<pendingAutoGenerate, genMode>>
              /\ UNCHANGED <<apiKey, lsGeminiKey>>
       ELSE IF lsFull
         THEN \* localStorage.setItem throws after setApiKey(key)
              /\ apiKey' = key
              /\ UNCHANGED <<lsGeminiKey, showApiKeyModal, chose,
                             pendingAutoGenerate, genMode>>
         ELSE /\ apiKey' = key
              /\ lsGeminiKey' = key
              /\ showApiKeyModal' = FALSE
              /\ chose' = "key"
              /\ IF pendingAutoGenerate /\ selectedImage
                   THEN pendingAutoGenerate' = FALSE /\ genMode' = "apiKey"
                   ELSE UNCHANGED <<pendingAutoGenerate, genMode>>
    /\ UNCHANGED <<appUser, selectedImage>>
    /\ AppFrame

\* openSettings, lines 191-195
openSettings ==
    /\ pendingAutoGenerate' = FALSE
    /\ showApiKeyModal' = TRUE
    /\ UNCHANGED <<apiKey, lsGeminiKey, appUser, selectedImage, chose, genMode>>
    /\ AppFrame

\* the modal's onClose
closeModal ==
    /\ showApiKeyModal
    /\ showApiKeyModal' = FALSE
    /\ UNCHANGED <<apiKey, lsGeminiKey, appUser, pendingAutoGenerate,
                   selectedImage, chose, genMode>>
    /\ AppFrame

\* handleImageUpload (an image is chosen) and clearAll
handleImageUpload ==
    /\ selectedImage' = ~selectedImage
    /\ UNCHANGED <<apiKey, lsGeminiKey, appUser, showApiKeyModal,
                   pendingAutoGenerate, chose, genMode>>
    /\ AppFrame

\* variant: a signed-in user's credits come before the key
resolveMode_creditsFirst(key, signedIn) ==
    IF signedIn THEN "credits"
    ELSE IF key # NoKey THEN "apiKey"
    ELSE "modal"

\* handleGenerateClick, lines 224-235: "Priority: API key > Credits > Show
\* modal"
resolveMode(key, signedIn) ==
    IF key # NoKey THEN "apiKey"
    ELSE IF signedIn THEN "credits"
    ELSE "modal"

\* handleGenerateClick, lines 218-236
handleGenerateClick ==
    /\ selectedImage
    /\ genMode' = resolveMode(apiKey, appUser)
    /\ IF resolveMode(apiKey, appUser) = "modal"
         THEN pendingAutoGenerate' = TRUE /\ showApiKeyModal' = TRUE
         ELSE UNCHANGED <<pendingAutoGenerate, showApiKeyModal>>
    /\ UNCHANGED <<apiKey, lsGeminiKey, appUser, selectedImage, chose>>
    /\ AppFrame

\* the subscriber of the mount effect: setUser(newUser)
setUser(signedIn) ==
    /\ appUser' = signedIn
    /\ UNCHANGED <<apiKey, lsGeminiKey, showApiKeyModal, pendingAutoGenerate,
                   selectedImage, chose, genMode>>
    /\ AppFrame

(***************************************************************************)
(* geminiService: the five public operations.  server counts the requests  *)
(* sent to CONFIG.apiBaseUrl, client the calls made through the Gemini SDK *)
(* with the caller's key.  The bodies the server answers with carry no     *)
(* credits_remaining here; that field is followed in ApiResponse.          *)
(***************************************************************************)
MaxPolls == 1

GemOps == {"generateAnimationPrompt", "editImage", "generateVideo",
           "generateText", "analyzeImage"}

IdleGem ==
    [pc |-> "idle", op |-> "none", key |-> NoKey, useCredits |-> FALSE,
     server |-> 0, client |-> 0, polls |-> 0, res |-> "none"]

GemFrame ==
    /\ UNCHANGED <<storeVars, envVars, authVars, idVars, subVars, appVars>>
    /\ UNCHANGED <<idOp2, usage>>

\* variant: useCredits selects the server although a key was given
isClientMode_creditsFirst(key, useCredits) == key # NoKey /\ ~useCredits

\* isClientMode, lines 347-350: !!options.apiKey
isClientMode(key, useCredits) == key # NoKey

\* the server helpers' first lines (258-259, 293-294, 332-333): no token,
\* no request
serverRequest(g, pc) ==
    IF accessToken = 0 THEN [g EXCEPT !.pc = "done", !.res = "threw"]
    ELSE [g EXCEPT !.pc = pc, !.server = @ + 1]

\* a public operation up to its first await (lines 357-389, 397-450,
\* 453-525, 530-555, 560-596)
GemStart(op, key, useCredits) ==
    /\ gem.pc \in {"idle", "done"}
    /\ LET g == [IdleGem EXCEPT !.op = op, !.key = key,
                                 !.useCredits = useCredits] IN
       gem' = IF isClientMode(key, useCredits)
                THEN [g EXCEPT !.pc = "client", !.client = 1]
                ELSE serverRequest(g, "submit")
    /\ GemFrame

\* the SDK call settles; a video operation that is not done is asked again
\* (lines 484-496)
GemClientResponse(outcome) ==
    /\ gem.pc = "client"
    /\ outcome = "pending" => gem.op = "generateVideo" /\ gem.polls < MaxPolls
    /\ gem' = IF outcome = "pending"
                THEN [gem EXCEPT !.client = @ + 1, !.polls = @ + 1]
                ELSE [gem EXCEPT !.pc = "done",
                                 !.res = IF outcome = "ok" THEN "returned"
                                         ELSE "threw"]
    /\ GemFrame

\* serverFetch, lines 261-285, then pollJobStatus, lines 293-299
GemSubmitResponse(ok) ==
    /\ gem.pc = "submit"
    /\ gem' = IF ok THEN serverRequest(gem, "poll")
                ELSE [gem EXCEPT !.pc = "done", !.res = "threw"]
    /\ GemFrame

\* pollJobStatus, lines 301-328, then downloadServerVideo, lines 331-337
GemPollResponse(status) ==
    /\ gem.pc = "poll"
    /\ status = "queued" => gem.polls < MaxPolls
    /\ gem' = IF status = "queued"
                THEN [gem EXCEPT !.server = @ + 1, !.polls = @ + 1]
                ELSE IF status = "completed"
                THEN IF gem.op = "generateVideo"
                       THEN serverRequest(gem, "download")
                       ELSE [gem EXCEPT !.pc = "done", !.res = "returned"]
                ELSE [gem EXCEPT !.pc = "done", !.res = "threw"]
    /\ GemFrame

\* downloadServerVideo, lines 339-342
GemDownloadResponse(ok) ==
    /\ gem.pc = "download"
    /\ gem' = [gem EXCEPT !.pc = "done",
                          !.res = IF ok THEN "returned" ELSE "threw"]
    /\ GemFrame

(***************************************************************************)
(* usageService events.  usage.store is the 'events' object store (events  *)
(* are numbered as they are recorded, usage.n so far), usage.read what     *)
(* getEncryptedData gave the sync, usage.sent the events that were part of *)
(* a request.  IndexedDB runs the transactions on the store in the order   *)
(* they were created.                                                      *)
(***************************************************************************)
MaxEvents == 5

InitUsage == [store |-> {}, n |-> 0, sent |-> {}, pc |-> "idle", read |-> {}]

UsageFrame ==
    /\ UNCHANGED <<storeVars, envVars, authVars, idVars, subVars, appVars>>
    /\ UNCHANGED <<gem, idOp2>>

\* recordUsage, lines 174-206: store.add
recordUsage ==
    /\ usage.n < MaxEvents
    /\ usage' = [usage EXCEPT !.n = @ + 1, !.store = @ \cup {usage.n + 1}]
    /\ UsageFrame

\* syncUsageToServer, lines 247-256: nothing to send, or the request and
\* clearEvents (store.clear(), lines 227-238)
syncSend(u) ==
    IF u.read = {} THEN [u EXCEPT !.pc = "done"]
    ELSE [u EXCEPT !.pc = "done", !.sent = @ \cup u.read, !.store = {},
                   !.read = {}]

\* initUsage, lines 263-270, and syncUsageToServer up to await
\* getEncryptedData(): the readonly getAll transaction is created
SyncStart ==
    /\ usage.pc = "idle"
    /\ usage' = [usage EXCEPT !.pc = "reading", !.read = usage.store]
    /\ UsageFrame

\* getEncryptedData settled
SyncGot ==
    /\ usage.pc = "reading"
    /\ usage' = syncSend(usage)
    /\ UsageFrame

(***************************************************************************)
(* The page and the SDK script                                             *)
(***************************************************************************)
\* a reload: module state and component state start over, storage stays; the
\* mount effect of App reads the stored API key into its state
Reload ==
    /\ accessToken' = 0
    /\ gsiInit' = FALSE
    /\ polling' = FALSE
    /\ lastNotified' = Never
    /\ thr' = [t \in Threads |-> IdleT]
    /\ googleLoaded' = FALSE
    /\ cachedUserId' = NULL
    /\ uUserId' = NULL
    /\ idOp' = IdleOp
    /\ authStateCallbacks' = <<>>
    /\ invoked' = <<>>
    /\ cbCount' = 0
    /\ disposed' = {}
    /\ apiKey' = lsGeminiKey
    /\ appUser' = FALSE
    /\ showApiKeyModal' = FALSE
    /\ pendingAutoGenerate' = FALSE
    /\ selectedImage' = FALSE
    /\ genMode' = "none"
    /\ gem' = IdleGem
    /\ idOp2' = IdleOp2
    /\ usage' = [usage EXCEPT !.pc = "idle", !.read = {}]
    /\ UNCHANGED <<storeVars, lsFull, ckBlocked, idbDown, sessLs, sessCk, sessIdb>>
    /\ UNCHANGED <<idCookie, idIdb, uIdb, idRes, lsGeminiKey, chose>>

EnvGoogleLoads ==
    /\ ~googleLoaded
    /\ googleLoaded' = TRUE
    /\ UNCHANGED <<lsFull, ckBlocked, idbDown, storeVars, authVars, idVars>>
    /\ UNCHANGED <<subVars, appVars, svcVars>>

\* a checkGoogleLoaded timer fires and finds the SDK
PollTick ==
    /\ polling /\ googleLoaded
    /\ gsiInit' = TRUE
    /\ polling' = FALSE
    /\ UNCHANGED <<accessToken, sessLs, sessCk, sessIdb, lastNotified, thr>>
    /\ UNCHANGED <<storeVars, envVars, idVars>>
    /\ UNCHANGED <<subVars, appVars, svcVars>>

NextId ==
    \/ \E r \in BOOLEAN : IdStart(r)
    \/ \E g \in GenIds : IdIdbGot(g)
    \/ IdSaved
    \/ UStart
    \/ \E g \in GenIds : UOpened(g)
    \/ \E g \in GenIds : UpdStart(g)
    \/ UpdSaved
    \/ Reload
    \/ EnvClearCookies
    \/ EnvClearIndexedDB

\* two callers of userIdService.getOrCreateUserId on one page
NextIdTwo ==
    \/ IdStart(FALSE)
    \/ \E g \in GenIds : IdIdbGot(g)
    \/ IdSaved
    \/ Id2Start
    \/ \E g \in GenIds : Id2IdbGot(g)
    \/ Id2Saved
    \/ Reload
    \/ EnvClearCookies
    \/ EnvClearIndexedDB

\* the usage events of a page that is loaded again and again
NextUsage ==
    \/ recordUsage
    \/ SyncStart
    \/ SyncGot
    \/ Reload

Outcomes == {"ok", "nosuccess", "notok", "reject"}

\* sign-out, sign-in, the page and the browser; los are the outcomes of
\* POST /auth/logout that are explored (the outcome changes nothing but the
\* record of it)
NextSession(cap, los) ==
    \/ SoStart(cap)
    \/ \E t \in Threads : SoRemoveDone(t)
    \/ \E t \in Threads, o \in los : SoLogoutDone(t, o)
    \/ \E t \in Threads : SoInitResolved(t)
    \/ \E t \in Threads : SoInitTimedOut(t)
    \/ SiStart(cap)
    \/ \E o \in Outcomes, k \in Tokens, u \in Users : SiResponse(o, k, u)
    \/ SiSetDone
    \/ Reload
    \/ EnvGoogleLoads
    \/ PollTick
    \/ EnvClearLocalStorage
    \/ EnvClearCookies
    \/ EnvClearIndexedDB

NextAuth(cap, los) ==
    \/ \E t \in Fetchers : AfStart(t, cap)
    \/ \E t \in Fetchers, st \in Statuses : AfResponse(t, st)
    \/ \E t \in Fetchers : AfRejected(t)
    \/ \E t \in Fetchers, st \in Statuses : AfRetryResponse(t, st)
    \/ RtStart(cap)
    \/ \E t \in Threads, o \in Outcomes, k \in Tokens : RtResponse(t, o, k)
    \/ NextSession(cap, los)

\* the calls the sequential specification adds
NextCalls(cap) ==
    \/ \E n \in Credits : UcStart(n, cap)
    \/ UcIdbDone(TCredits)
    \/ Subscribe
    \/ \E c \in 1..MaxSubs : Dispose(c)

\* the bootstrap of the mount effect
NextBoot(cap) ==
    \/ IaStart(cap)
    \/ \E o \in Outcomes, k \in Tokens : RtResponse(TInit, o, k)
    \/ \E o \in FuOutcomes, u \in Users : FuResponse(TInit, o, u)
    \/ FuSetDone(TInit)
    \/ IaInitResolved(TInit)
    \/ IaInitTimedOut(TInit)

\* the request helpers
NextApi(cap) ==
    \/ \E h \in Helpers : ApiStart(h, cap)
    \/ \E ok \in BOOLEAN, cr \in Credits \cup {NoCredits} : ApiResponse(ok, cr)
    \/ UcIdbDone(TApi)

\* geminiService calls of a page whose user signs in and out
NextGemini ==
    \/ NextSession(1, {"ok"})
    \/ \E op \in GemOps, key \in {NoKey, "k1"}, c \in BOOLEAN :
           GemStart(op, key, c)
    \/ \E o \in {"ok", "pending", "err"} : GemClientResponse(o)
    \/ \E ok \in BOOLEAN : GemSubmitResponse(ok)
    \/ \E st \in {"queued", "completed", "failed"} : GemPollResponse(st)
    \/ \E ok \in BOOLEAN : GemDownloadResponse(ok)

\* the App component
NextApp ==
    \/ \E key \in ApiKeys \cup {UseCredits} :
           \* the modal submits the credits marker for a signed-in user only
           /\ key = UseCredits => appUser
           /\ handleApiKeySubmit(key)
    \/ openSettings
    \/ closeModal
    \/ handleImageUpload
    \/ handleGenerateClick
    \/ \E u \in BOOLEAN : setUser(u)
    \/ Reload
    \/ EnvClearLocalStorage
    \/ EnvQuota

\* signOut called while one operation that started earlier is at an await
NextRace ==
    \/ SoStart(MaxActive)
    \/ \E t \in Threads : SoRemoveDone(t)
    \/ \E t \in Threads : SoLogoutDone(t, "ok")
    \/ \E t \in Threads : SoInitResolved(t)
    \/ \E t \in Threads : SoInitTimedOut(t)
    \/ SiStart(1)
    \/ \E o \in Outcomes, k \in Tokens, u \in Users : SiResponse(o, k, u)
    \/ SiSetDone
    \/ RtStart(1)
    \/ \E t \in Threads, o \in Outcomes, k \in Tokens : RtResponse(t, o, k)
    \/ \E n \in Credits : UcStart(n, 1)
    \/ UcIdbDone(TCredits)
    \/ NextBoot(1)
    \/ EnvGoogleLoads
    \/ PollTick

Next == NextAuth(MaxActive, {"ok"})

NextSeq == NextAuth(1, LogoutOutcomes)

NextSub == NextSession(1, LogoutOutcomes) \/ NextCalls(1)

NextInit == NextSession(1, LogoutOutcomes) \/ NextBoot(1)

NextHelpers == NextSession(1, LogoutOutcomes) \/ NextApi(1)

InitState ==
    /\ localStorage = [k \in Keys |-> NULL]
    /\ cookieJar = [k \in Keys |-> NULL]
    /\ indexedDB = [k \in Keys |-> NULL]
    /\ stRes = [op |-> "none", key |-> KeyUser, out |-> NULL]
    /\ lsFull = FALSE
    /\ googleLoaded = FALSE
    /\ accessToken = 0
    /\ sessLs = NoUser
    /\ sessCk = NoUser
    /\ sessIdb = NoUser
    /\ gsiInit = FALSE
    /\ polling = FALSE
    /\ lastNotified = Never
    /\ thr = [t \in Threads |-> IdleT]
    /\ cachedUserId = NULL
    /\ idCookie = NULL
    /\ idIdb = NULL
    /\ uUserId = NULL
    /\ uIdb = NULL
    /\ idOp = IdleOp
    /\ idRes = [userId |-> NULL, usage |-> NULL, forced |-> NULL, anon |-> NULL]
    /\ authStateCallbacks = <<>>
    /\ invoked = <<>>
    /\ cbCount = 0
    /\ disposed = {}
    /\ apiKey = NoKey
    /\ lsGeminiKey = NoKey
    /\ appUser = FALSE
    /\ showApiKeyModal = FALSE
    /\ pendingAutoGenerate = FALSE
    /\ selectedImage = FALSE
    /\ chose = "none"
    /\ genMode = "none"
    /\ gem = IdleGem
    /\ idOp2 = IdleOp2
    /\ usage = InitUsage

\* a browser with every storage layer enabled
Init ==
    /\ InitState
    /\ ckBlocked = FALSE
    /\ idbDown = FALSE

\* any browser: cookies may be blocked, indexedDB.open may fail
InitAnyBrowser ==
    /\ InitState
    /\ ckBlocked \in BOOLEAN
    /\ idbDown \in BOOLEAN

Spec == Init /\ [][Next]_vars

SpecSeq == Init /\ [][NextSeq]_vars

SpecSub == Init /\ [][NextSub]_vars

SpecBoot == Init /\ [][NextInit]_vars

SpecApi == Init /\ [][NextHelpers]_vars

SpecApp == Init /\ [][NextApp]_vars

SpecGemini == Init /\ [][NextGemini]_vars

SpecStore == InitAnyBrowser /\ [][NextStore]_vars

SpecId == InitAnyBrowser /\ [][NextId]_vars

SpecIdTwo == Init /\ [][NextIdTwo]_vars

SpecUsage == Init /\ [][NextUsage]_vars

SpecRace == Init /\ [][NextRace]_vars

(***************************************************************************)
(* Properties.  A finished call keeps its record (pc = "done") until the   *)
(* next call takes a step, so "when the call returns" is the state in      *)
(* which its record is done.                                               *)
(***************************************************************************)
SessionRemoved == sessLs = NoUser /\ sessCk = NoUser /\ sessIdb = NoUser

InRefresh == {t \in Fetchers : thr[t].pc = "rt_fetch"}

\* C1: at most one POST /auth/refresh is in flight: authenticatedFetch calls
\* that all received 401 share a single refresh request.
C1_SingleFlightRefresh == Cardinality(InRefresh) <= 1

\* C2: an authenticatedFetch call that held a token and received 401 refreshes
\* exactly once; when the refresh succeeds it sends the request exactly once
\* more, with the token the refresh installed, and returns that response as
\* it is; a call without a token, or one not answered 401, neither refreshes
\* nor retries.
C2_OneRefreshOneRetry ==
    \A t \in Fetchers :
        thr[t].pc = "done" =>
            LET T == thr[t] IN
            /\ (T.tok # 0 /\ T.resp = 401) => T.refs = 1
            /\ (T.tok # 0 /\ T.resp = 401 /\ T.rv = "true") =>
                   /\ T.reqs = 2
                   /\ T.newTok # 0 /\ T.sentTok = T.newTok
                   /\ T.res \in {T.retry, Rejected}
            /\ (T.tok # 0 /\ T.resp = 401 /\ T.rv = "false") => T.reqs = 1
            /\ (T.tok = 0 \/ T.resp # 401) => (T.refs = 0 /\ T.reqs = 1)

\* C2 happens: a call refreshed, retried with a different token and returned
\* the retry's 401
W2_RetryAnswered401 ==
    \E t \in Fetchers :
        /\ thr[t].pc = "done" /\ thr[t].tok # 0 /\ thr[t].resp = 401
        /\ thr[t].rv = "true" /\ thr[t].newTok # thr[t].tok
        /\ thr[t].reqs = 2 /\ thr[t].retry = 401 /\ thr[t].res = 401

\* C3: when the refresh fails, authenticatedFetch returns the original 401,
\* sends nothing more, and at its return the token is null and the session
\* is gone from every layer.
C3_FailedRefreshReturns401SignedOut ==
    \A t \in Fetchers :
        (thr[t].pc = "done" /\ thr[t].tok # 0 /\ thr[t].resp = 401
            /\ thr[t].rv = "false") =>
            /\ thr[t].res = 401 /\ thr[t].reqs = 1
            /\ accessToken = 0
            /\ SessionRemoved

\* C3 happens: the refresh failed without signing out itself and the signOut
\* of authenticatedFetch cleared a token that was still held
W3_SignedOutByFetch ==
    \E t \in Fetchers :
        /\ thr[t].pc = "done" /\ thr[t].tok # 0 /\ thr[t].resp = 401
        /\ thr[t].rv = "false" /\ thr[t].soTok # 0 /\ thr[t].soUser # NoUser
        /\ thr[t].res = 401

\* C4: refreshToken returns false on every kind of failure and by its return
\* the token is null, the session removed and the subscribers told null.
C4_RefreshFailureSignsOut ==
    (thr[TRefresh].pc = "done" /\ thr[TRefresh].rv = "false") =>
        /\ accessToken = 0
        /\ SessionRemoved
        /\ lastNotified = NoUser

C6_TokenNeverPersisted ==
    /\ localStorage[KeyToken] = NULL
    /\ cookieJar[KeyToken] = NULL
    /\ indexedDB[KeyToken] = NULL

\* the synchronous read: localStorage, then the cookie
getSyncOf(ls, ck, key) == IF Truthy(ls[key]) THEN ls[key] ELSE getCookie(ck, key)

\* C7: a get that finds the value only in IndexedDB returns it and leaves it
\* in localStorage and (where cookies are written at all) in the cookie, so
\* the synchronous read returns it; a value found only in the cookie is in
\* localStorage when the get returns.
C7_GetRepairsUpperLayers ==
    [][\A k \in Keys :
          CallGet(k) =>
            /\ (localStorage[k] = NULL /\ cookieJar[k] = NULL
                  /\ Truthy(indexedDB[k]) /\ ~idbDown) =>
                   /\ stRes'.out = indexedDB[k]
                   /\ localStorage'[k] = indexedDB[k]
                   /\ ckBlocked \/ cookieJar'[k] = encodeURIComponent(indexedDB[k])
                   /\ getSyncOf(localStorage', cookieJar', k) = indexedDB[k]
            /\ (localStorage[k] = NULL /\ Truthy(getCookie(cookieJar, k))) =>
                   /\ stRes'.out # THREW
                   /\ localStorage'[k] = stRes'.out]_vars

\* what the layers hold for key k, highest priority first
HighestPriorityValue(k) ==
    IF localStorage[k] # NULL THEN localStorage[k]
    ELSE IF cookieJar[k] # NULL THEN decodeURIComponent(cookieJar[k])
    ELSE IF indexedDB[k] # NULL THEN indexedDB[k]
    ELSE NULL

\* C8: the get returns the value of the highest-priority layer that has the
\* key, and null only when no layer has it.
C8_GetReturnsHighestPriority ==
    [][\A k \in Keys : CallGet(k) => stRes'.out = HighestPriorityValue(k)]_vars

\* C9: the multi-layer set never throws or rejects.
C9_SetNeverThrows == stRes.op = "save" => stRes.out # THREW

IdReturns ==
    /\ idOp'.pc = "done" /\ idOp'.fn \in {"userId", "usage"}
    /\ (idOp.pc # "done" \/ idOp'.seq # idOp.seq)

\* C10: a getOrCreateUserId call returns the id the previous call returned
\* whenever the cache or a storage layer still holds it, and generates an id
\* only when the cache and every layer are empty.
C10_IdempotentGetOrCreate ==
    [][(IdReturns /\ idOp'.id # THREW) =>
          IF idOp'.fn = "userId"
            THEN /\ (idRes.userId # NULL
                       /\ idRes.userId \in {cachedUserId, idCookie, idIdb})
                        => idOp'.id = idRes.userId
                 /\ idOp'.src = "new" =>
                        (cachedUserId = NULL /\ idCookie = NULL /\ idIdb = NULL)
            ELSE /\ (idRes.usage # NULL /\ idRes.usage \in {uUserId, uIdb})
                        => idOp'.id = idRes.usage
                 /\ idOp'.src = "new" => (uUserId = NULL /\ uIdb = NULL)]_vars

\* C10 happens: after the cache was reset, a call found the id of the
\* previous call in storage and returned it
W10_SameIdAfterReload ==
    /\ idOp.pc = "done" /\ idOp.fn = "userId"
    /\ idOp.src \in {"idb", "cookie"}
    /\ idOp.prev # NULL /\ idOp.id = idOp.prev

\* C11: getOrCreateUserId never rejects: every call, of userIdService and of
\* usageService, returns an id, and the cache of its service then holds it.
C11_GetOrCreateNeverRejects ==
    (idOp.pc = "done" /\ idOp.fn \in {"userId", "usage"}) =>
        /\ idOp.id # THREW
        /\ Truthy(idOp.id)
        /\ idOp.id = (IF idOp.fn = "userId" THEN cachedUserId ELSE uUserId)

UpdWrites == idOp'.pc = "upd_save" /\ idOp'.seq # idOp.seq

UpdReturns == idOp.pc = "upd_save" /\ idOp'.pc = "done"

C13_CreditPatchNotifiesAndPersists ==
    [][\A n \in Credits :
          (UcStart(n, 1) /\ getCurrentUser(CurG) # NoUser) =>
              LET patched == [getCurrentUser(CurG) EXCEPT !.credits = n] IN
              /\ thr'[TCredits].notes = 1
              /\ lastNotified' = patched
              /\ invoked' = authStateCallbacks
              /\ getCurrentUser(CurG)' = patched]_vars

\* the callbacks created and not disposed, in the order of registration
Live == SelectSeq([c \in 1..cbCount |-> c], LAMBDA c : c \notin disposed)

NotifiedBy(t) ==
    /\ thr'[t] # thr[t]
    /\ thr'[t].notes > (IF thr[t].pc \in {"idle", "done"} THEN 0 ELSE thr[t].notes)

\* C14: a notification invokes exactly the callbacks registered and not
\* disposed at that moment, in registration order; a disposer removes its
\* own registration only and a disposed callback is not invoked again.
C14_NotifiesLiveSubscribersInOrder ==
    [][(\E t \in Threads : NotifiedBy(t)) => invoked' = Live]_vars

\* C14 happens: after the first of two callbacks was disposed a notification
\* invoked the second one alone
W14_OtherSubscriberStillNotified ==
    /\ cbCount = 2 /\ disposed = {1}
    /\ invoked = <<2>>
    /\ lastNotified # Never

\* C19: a sign-in exchange that yields no session (fetch rejects, non-2xx,
\* or 2xx with success false) notifies the subscribers with null and
\* installs neither a token nor a session.
C19_FailedExchangeNotifiesNull ==
    (thr[TSignIn].pc = "done" /\ thr[TSignIn].rv # "true") =>
        /\ thr[TSignIn].notes = 1
        /\ lastNotified = NoUser
        /\ thr[TSignIn].newTok = 0
        /\ thr[TSignIn].user = NoUser

\* C15: with no token in memory and no session in any layer, initializeAuth
\* returns null and sends nothing to /auth/refresh or /auth/me.
C15_EmptyBootstrapSendsNothing ==
    (thr[TInit].pc = "done" /\ thr[TInit].tok = 0 /\ thr[TInit].pre = NoUser) =>
        /\ thr[TInit].rv = "null"
        /\ thr[TInit].refs = 0
        /\ thr[TInit].mes = 0

\* C15 happens: initializeAuth returned null from an empty state after it
\* had run initGoogleAuth
W15_EmptyBootstrapReturnedNull ==
    /\ thr[TInit].pc = "done" /\ thr[TInit].tok = 0 /\ thr[TInit].pre = NoUser
    /\ thr[TInit].rv = "null" /\ thr[TInit].inits = 1

\* C16: on every path through initializeAuth, initGoogleAuth has been run
\* before initializeAuth returns (by the call, or the bridge is initialized
\* or polling for the SDK already).
C16_BridgeInitializedOnEveryPath ==
    thr[TInit].pc = "done" => (thr[TInit].inits >= 1 \/ gsiInit \/ polling)

\* C18: when the 10 s ceiling rejects initGoogleAuth and the SDK is not
\* there, no further readiness check is scheduled.
C18_PollingStopsAtCeiling ==
    [][\A t \in Threads :
          ((SoInitTimedOut(t) \/ IaInitTimedOut(t)) /\ ~googleLoaded)
              => ~polling']_vars

\* C20: whenever the body a request helper receives from a bearer-
\* authenticated endpoint carries credits_remaining, the helper invokes
\* updateUserCredits with that value, whichever helper it is.
C20_CreditsFieldAlwaysApplied ==
    (thr[TApi].pc \in {"done", "uc_idb"} /\ thr[TApi].cr # NoCredits) =>
        thr[TApi].upd = 1

\* C17: after the user has chosen credits while a literal API key is stored,
\* a generation resolves to credits (server-mediated), also after a reload.
C17_ChosenCreditsWinOverStoredKey ==
    [][(handleGenerateClick /\ chose = "credits" /\ lsGeminiKey # NoKey
          /\ appUser)
         => genMode' = "credits"]_vars

C28_OneSignOutPerFailedRefresh ==
    \A t \in Fetchers :
        (thr[t].pc = "done" /\ thr[t].tok # 0 /\ thr[t].resp = 401
            /\ thr[t].rv = "false") =>
            /\ thr[t].outs = 1
            /\ thr[t].notes = 1
            /\ thr[t].inits <= 1

\* C29: whether POST /auth/logout succeeds, answers an error or rejects,
\* signOut ends with the token and the session cleared and the subscribers
\* told null; without a token in memory no /auth/logout request is sent.
C29_SignOutIgnoresLogoutResult ==
    /\ thr[TSignOut].pc = "done" =>
          /\ accessToken = 0
          /\ SessionRemoved
          /\ lastNotified = NoUser
          /\ thr[TSignOut].notes = 1
          /\ (thr[TSignOut].lo # "none") = (thr[TSignOut].soTok # 0)
    /\ thr[TSignOut].pc = "so_logout" => thr[TSignOut].soTok # 0

\* C29 happens: the logout request of a signed-in user was rejected and
\* signOut completed
W29_LogoutRejectedSignOutCompleted ==
    /\ thr[TSignOut].pc = "done"
    /\ thr[TSignOut].lo = "reject"
    /\ thr[TSignOut].soUser # NoUser
    /\ thr[TSignOut].notes = 1

\* C23: a generate request with a stored API key runs in apiKey mode even
\* when a user is signed in; with no key and a signed-in user it runs in
\* credits mode; with neither, nothing is generated, the settings modal is
\* opened and the request is remembered as pending.
C23_ModeFallbackChain ==
    [][handleGenerateClick =>
         /\ lsGeminiKey # NoKey => genMode' = "apiKey"
         /\ (apiKey = NoKey /\ appUser) => genMode' = "credits"
         /\ (apiKey = NoKey /\ ~appUser) =>
                /\ genMode' \notin {"apiKey", "credits"}
                /\ showApiKeyModal' /\ pendingAutoGenerate']_vars

\* C23 happens: a request made with neither key nor user is pending behind
\* the open modal
W23_PromptedWithRequestPending ==
    /\ genMode = "modal" /\ showApiKeyModal /\ pendingAutoGenerate
    /\ apiKey = NoKey /\ lsGeminiKey = NoKey /\ ~appUser /\ selectedImage

\* C24: a geminiService operation called with a non-empty apiKey sends no
\* request to the configured apiBaseUrl (no submit, no job poll, no
\* download), also when useCredits is true.
C24_KeyNeverReachesServer ==
    gem.key # NoKey => gem.server = 0 /\ gem.pc \notin {"submit", "poll", "download"}

\* C24 happens: generateVideo given a key and useCredits returned after
\* asking the SDK for the operation again
W24_KeyedVideoStayedOnClient ==
    /\ gem.pc = "done" /\ gem.res = "returned" /\ gem.op = "generateVideo"
    /\ gem.key # NoKey /\ gem.useCredits /\ gem.client = 2
    /\ accessToken # 0

\* C25: two getOrCreateUserId calls started before either has completed,
\* with no id in the cache, the cookie or IndexedDB, resolve to the same id.
C25_ConcurrentFirstUseOneId ==
    (idOp.pc = "done" /\ idOp.fn = "userId" /\ idOp2.pc = "done" /\ idOp2.first)
        => idOp.id = idOp2.id

\* C30: every event recordUsage stored is still in the event store or was
\* part of a sync request; none is deleted unsent.
C30_NoEventDeletedUnsent ==
    \A e \in 1..usage.n : e \in usage.store \/ e \in usage.sent

\* the awaits of fetchUserInfo, updateUserCredits and the credential exchange
PendingWrites == {"fu_req", "fu_set", "uc_idb", "si_auth", "si_set"}

\* C26: when signOut has completed while a fetchUserInfo, updateUserCredits
\* or credential exchange that started earlier was still pending, the steps
\* that operation then takes leave the session key absent from every layer
\* and give subscribers no user after the sign-out's null.
C26_SignOutNotUndone ==
    [][\A t \in {TInit, TCredits, TSignIn} :
          (/\ thr[TSignOut].pc = "done"
           /\ thr[t].pc \in PendingWrites
           /\ thr'[t] # thr[t])
              => SessionRemoved' /\ lastNotified' = NoUser]_vars

\* C27: with no auth operation in flight, an access token is in memory only
\* if a session is persisted; a refresh response that arrives after signOut
\* cleared the token installs none.
C27_TokenOnlyWithSession ==
    (Active = 0 /\ accessToken # 0) => ~SessionRemoved

\* C22: isAuthenticated() is true only with a token in memory, and when
\* initializeAuth has returned a user, a token is in memory and /auth/me was
\* called in this invocation (after /auth/refresh gave the token, when the
\* invocation began without one).
C22_SessionAloneNeverAuthenticated ==
    /\ isAuthenticated(CurG) => accessToken # 0
    /\ (thr[TInit].pc = "done" /\ thr[TInit].rv = "user") =>
          /\ accessToken # 0
          /\ thr[TInit].mes >= 1
          /\ thr[TInit].tok = 0 => thr[TInit].newTok # 0

====
